---- MODULE Spec2Model ----
(***************************************************************************)
(* Scripts of cloudtruth/junkdrawer.                                       *)
(*                                                                         *)
(*   SpecProject      repro/common/helpers.py: delete_project, the walk    *)
(*                    get_project_tree_projects and the requests it makes  *)
(*   SpecIntegration  delete_integrations.py: main, from the check of the  *)
(*                    user's role to the end of the batch                  *)
(*   SpecCli          repro/ct_org_repro_init.py: main, --projects         *)
(*                    --delete, one project or all top-level projects      *)
(*   SpecWalk         get_project_tree_projects call by call, on any       *)
(*                    graph of dependents urls                             *)
(*   SpecCreate       repro/ct_org_repro_init.py: main, --projects         *)
(*                    --create with --levels                               *)
(*   SpecTemplate     python/cloudtruth_testing: the trailing-slash        *)
(*                    update test                                          *)
(*                                                                         *)
(* The remote service is the environment: the projects it stores are       *)
(* chosen in the initial state, the answer to every other request (its     *)
(* status code and, for a listing, its content) when the request is made.  *)
(***************************************************************************)
EXTENDS Integers, Sequences, FiniteSets, TLC

\* ------------------------------------------------------------------ bounds
NumProjects == 4
MaxParams == 1
NumIntegrations == 2
MaxPulls == 2
MaxPushes == 1
MaxPointers == 2
MaxWalkDepth == 6
MaxLevels == 3
MaxProjectCount == 2
MaxExisting == 2

VARIABLES
    \* shared by the two scripts
    force,                  \* the force argument / --force
    pc,                     \* position of the run
    exit_status,            \* process exit status, -1 while running
    exit_reason,            \* why the run ended early, "" otherwise
    deletes,                \* the DELETE requests issued, with their answers, by the
                            \* call of delete_project / for the integration in hand
    \* the remote service, projects
    depends_on,             \* project -> its parent (NoProject for a top-level one)
    dependents,             \* project -> list of child urls, in the service's order
    parameters,             \* project -> number of parameters it holds
    \* delete_project
    root,                   \* the project passed to delete_project
    project_and_dependents, \* helpers.py:101
    done_count,             \* iterations of the loop of helpers.py:103 completed
    \* delete_integrations.main
    dry_run,
    integrations,           \* delete_integrations.py:121
    idx,                    \* index in integrations of the integration being processed
    pulls, pushes,          \* delete_integrations.py:164, 170
    pull_i, push_i,         \* iterations of the loops of lines 181, 184 completed
    role,                   \* the role the service reports for the current user
    listing_failed,         \* a listing of the integration in hand was answered with an error
    delete_failed,          \* some DELETE of the run was answered with an error
    \* ct_org_repro_init.main
    args,                   \* the parsed command line
    top_level_projects,     \* ct_org_repro_init.py:186
    top_i,                  \* index in top_level_projects of the project being deleted
    level_projects,         \* ct_org_repro_init.py:268, the number of projects listed
    level_i,                \* ct_org_repro_init.py:269, the counter i
    for_pos,                \* iterations of the for loop of line 271 completed
    rounds,                 \* passes of the while loop of line 270 completed
    created,                \* calls of create_projects made by the loop of line 270
    \* get_project_tree_projects, call by call
    stack,                  \* the calls in progress: [project, next child index]
    \* test_trailing_slash_updates.main
    template_exists,        \* the service holds a template of the given name
    sent,                   \* the methods of the requests sent so far
    update_i                \* calls of test_update completed

shared_vars == <<force, pc, exit_status, exit_reason, deletes>>
project_vars == <<depends_on, dependents, parameters, root, project_and_dependents, done_count>>
integration_flags == <<role, listing_failed, delete_failed>>
integration_vars == <<dry_run, integrations, idx, pulls, pushes, pull_i, push_i, integration_flags>>
cli_vars == <<args, top_level_projects, top_i>>
create_vars == <<level_projects, level_i, for_pos, rounds, created>>
walk_vars == <<stack>>
template_vars == <<template_exists, sent, update_i>>
extra_vars == <<cli_vars, create_vars, walk_vars, template_vars>>
vars == <<shared_vars, project_vars, integration_vars, extra_vars>>

\* ------------------------------------------------------------- generalities
Projects == 1..NumProjects
NoProject == 0

BoundedSeq(S, n) == UNION {[1..k -> S] : k \in 0..n}

RECURSIVE Perms(_)
Perms(S) ==
    IF S = {} THEN {<<>>}
    ELSE UNION {{<<x>> \o s : s \in Perms(S \ {x})} : x \in S}

Range(s) == {s[k] : k \in 1..Len(s)}

\* ---------------------------------------------------------- HTTP answers
ListCodes == {200, 500}
DeleteCodes == {204, 404, 500}

\* requests' Response.raise_for_status raises HTTPError for 4xx and 5xx
raise_for_status(code) == code >= 400 /\ code < 600

\* helpers.make_request: an HTTPError ends the process through exit()
make_request(code) == IF raise_for_status(code) THEN "exit" ELSE "response"

DeleteEntry(kind, owner, item, name, code) ==
    [kind |-> kind, owner |-> owner, item |-> item, name |-> name, code |-> code]

\* ------------------------------------------------------- projects: remote
\* The service creates a child under an existing parent (helpers.create_project
\* sends depends_on), so a parent is older than its children: ids in creation order.
Forests == {f \in [Projects -> {NoProject} \cup Projects] : \A p \in Projects : f[p] < p}

ChildrenOf(f, p) == {c \in Projects : f[c] = p}

\* every way the service may order the dependents lists of the forest f
RECURSIVE DependentsUpTo(_, _)
DependentsUpTo(f, n) ==
    IF n = 0 THEN {<<>>}
    ELSE {Append(d, o) : d \in DependentsUpTo(f, n - 1), o \in Perms(ChildrenOf(f, n))}

\* the projects that hold parameters hold the same number of them
ParameterCounts ==
    {[p \in Projects |-> IF p \in holders THEN n ELSE 0] :
        holders \in SUBSET Projects, n \in 1..MaxParams}

\* ------------------------------------------------------ projects: helpers
project_has_dependents_gt1(project) == Len(dependents[project]) > 1
project_has_dependents(project) == Len(dependents[project]) > 0

project_has_parent(project) == depends_on[project] # NoProject

\* get_project_tree_projects with the accumulator passed in; the value is the
\* accumulator after the call (the code mutates the list in place)
RECURSIVE get_project_tree_projects(_, _), walk_children(_, _, _)
get_project_tree_projects(project, projects) ==
    IF project_has_dependents(project)
    THEN walk_children(dependents[project], 1, projects)
    ELSE projects
walk_children(child_project_urls, k, projects) ==
    IF k > Len(child_project_urls) THEN projects
    ELSE LET child_project == child_project_urls[k]
             appended == Append(projects, child_project)
         IN walk_children(child_project_urls, k + 1,
                IF project_has_dependents(child_project)
                THEN get_project_tree_projects(child_project, appended)
                ELSE appended)

\* the first call (projects is None): the parent is put in the list on init
project_tree(project) == get_project_tree_projects(project, <<project>>)

not_reversed(s) == s
reversed(s) == [k \in 1..Len(s) |-> s[Len(s) + 1 - k]]

\* ------------------------------------------------- projects: delete_project
InitShared ==
    /\ force \in BOOLEAN
    /\ pc = "start"
    /\ exit_status = -1
    /\ exit_reason = ""
    /\ deletes = <<>>

IdleProject ==
    /\ depends_on = <<>>
    /\ dependents = <<>>
    /\ parameters = <<>>
    /\ root = NoProject
    /\ project_and_dependents = <<>>
    /\ done_count = 0

IdleIntegration ==
    /\ dry_run = FALSE
    /\ integrations = <<>>
    /\ idx = 0
    /\ pulls = <<>>
    /\ pushes = <<>>
    /\ pull_i = 0
    /\ push_i = 0
    /\ role = ""
    /\ listing_failed = FALSE
    /\ delete_failed = FALSE

NoArgs == [force |-> FALSE, project_root_name |-> NoProject, levels |-> 0, project_count |-> 0]

IdleCli ==
    /\ args = NoArgs
    /\ top_level_projects = <<>>
    /\ top_i = 0

IdleCreate ==
    /\ level_projects = 0
    /\ level_i = 0
    /\ for_pos = 0
    /\ rounds = 0
    /\ created = 0

IdleWalk == stack = <<>>

IdleTemplate ==
    /\ template_exists = FALSE
    /\ sent = <<>>
    /\ update_i = 0

IdleExtra == IdleCli /\ IdleCreate /\ IdleWalk /\ IdleTemplate

InitProject ==
    /\ IdleExtra
    /\ InitShared
    /\ depends_on \in Forests
    /\ dependents \in DependentsUpTo(depends_on, NumProjects)
    /\ parameters \in ParameterCounts
    /\ root \in Projects
    /\ project_and_dependents = <<>>
    /\ done_count = 0
    /\ IdleIntegration

Exit(status, reason) ==
    /\ pc' = "exited"
    /\ exit_status' = status
    /\ exit_reason' = reason

\* helpers.py:101: the walk; each child is fetched through make_request, so a
\* failed GET ends the process (exit() without argument: status 0)
GetProjectTree ==
    /\ pc = "start"
    /\ \/ /\ project_and_dependents' = project_tree(root)
          /\ pc' = "deleting"
          /\ UNCHANGED <<exit_status, exit_reason>>
       \/ /\ project_has_dependents(root)
          /\ Exit(0, "http_error")
          /\ UNCHANGED project_and_dependents
    /\ UNCHANGED <<force, deletes, depends_on, dependents, parameters, root, done_count>>
    /\ UNCHANGED integration_vars
    /\ UNCHANGED extra_vars

deletion_order == reversed(project_and_dependents)

\* helpers.py:104-105 and 169-176, one iteration with force: the parameters are
\* listed through make_request, then parameters.count() is evaluated on the
\* list: list.count takes one argument, the TypeError ends the process
\* before any parameter is deleted
DeleteProjectParameters ==
    /\ pc = "deleting"
    /\ done_count < Len(deletion_order)
    /\ force
    /\ \E code \in ListCodes :
          IF make_request(code) = "exit"
          THEN Exit(0, "http_error")
          ELSE /\ pc' = "crashed"
               /\ exit_status' = 1
               /\ exit_reason' = "TypeError"
    /\ UNCHANGED <<force, deletes>>
    /\ UNCHANGED project_vars
    /\ UNCHANGED integration_vars
    /\ UNCHANGED extra_vars

\* helpers.py:104-107 and 77-81, one iteration without force
DeleteProjectObject ==
    /\ pc = "deleting"
    /\ done_count < Len(deletion_order)
    /\ ~force
    /\ LET project == deletion_order[done_count + 1] IN
       \E code \in DeleteCodes :
          /\ deletes' = Append(deletes, DeleteEntry("project", project, 0, "", code))
          /\ IF make_request(code) = "exit"
             THEN Exit(0, "http_error") /\ UNCHANGED done_count
             ELSE /\ done_count' = done_count + 1
                  /\ UNCHANGED <<pc, exit_status, exit_reason>>
    /\ UNCHANGED <<force, depends_on, dependents, parameters, root, project_and_dependents>>
    /\ UNCHANGED integration_vars
    /\ UNCHANGED extra_vars

\* the loop of helpers.py:103 is over: delete_project returns, the script ends
DeleteProjectReturn ==
    /\ pc = "deleting"
    /\ done_count = Len(deletion_order)
    /\ pc' = "done"
    /\ exit_status' = 0
    /\ UNCHANGED <<force, exit_reason, deletes>>
    /\ UNCHANGED project_vars
    /\ UNCHANGED integration_vars
    /\ UNCHANGED extra_vars

NextProject ==
    \/ GetProjectTree
    \/ DeleteProjectParameters
    \/ DeleteProjectObject
    \/ DeleteProjectReturn

SpecProject == InitProject /\ [][NextProject]_vars

\* ---------------------------------------------------- integrations: remote
PROTECTED_PULL == "ExternalValues"
PullNames == {PROTECTED_PULL, "sync-1"}
PushNames == {"push-1"}

\* what the service may hold for one integration
StoredPulls == BoundedSeq(PullNames, MaxPulls)
StoredPushes == BoundedSeq(PushNames, MaxPushes)

\* the answer to a listing: its status code, and whether its body parses as JSON
\* (a 2xx answer of the service does; an error page may or may not)
ListAnswers == {a \in [code : ListCodes, is_json : BOOLEAN] : a.code = 200 => a.is_json}

\* get_integration_pulls / get_integration_pushes followed by
\* .json().get('results', []): the HTTPError is printed and the response is
\* returned all the same; an error body that is JSON has no 'results' key
listing_crashes(answer) == ~answer.is_json
listing_results(answer, stored) ==
    IF raise_for_status(answer.code) THEN <<>> ELSE stored

\* delete_integrations.py:73
is_protected_never(name) == FALSE
is_protected(name) == name = PROTECTED_PULL

\* delete_integrations.py:176-177
gate_refuses_pulls_only(f, pl, ps) == f = FALSE /\ Len(pl) > 0
gate_refuses(f, pl, ps) == f = FALSE /\ (Len(pl) > 0 \/ Len(ps) > 0)

\* delete_integration_pull, delete_integration_push: the HTTPError of a failed
\* delete is caught and printed, the caller's loop goes on
sub_delete_aborts_on_error(code) == raise_for_status(code)
sub_delete_aborts(code) == FALSE

\* delete_integrations.py:187-192: the HTTPError of the integration's own
\* delete is re-raised as SystemExit
integration_delete_aborts(code) == raise_for_status(code)

\* delete_integrations.py:16
DENIED_ROLES == {"VIEWER", "CONTRIB"}

\* the spellings of the role the service may answer with
RoleInputs == {"OWNER", "ADMIN", "CONTRIB", "VIEWER", "viewer", "Contrib"}

\* str.upper on those spellings
upper(r) ==
    CASE r = "viewer" -> "VIEWER"
      [] r = "Contrib" -> "CONTRIB"
      [] OTHER -> r

\* delete_integrations.py:114-115
role_as_answered(r) == r
role_compared(r) == upper(r)

\* delete_integrations.py:152
dry_run_exits_never(d) == FALSE
dry_run_exits(d) == d

\* delete_integrations.py:153-155: what the dry run prints, the table of the
\* integrations found, one row each, in the order of the listing
dry_run_report(found) == [k \in 1..Len(found) |-> <<"integration", found[k], 0>>]

\* ------------------------------------------------------ integrations: main
InitIntegration ==
    /\ IdleExtra
    /\ InitShared
    /\ IdleProject
    /\ dry_run \in BOOLEAN
    /\ integrations = <<>>
    /\ idx = 0
    /\ pulls = <<>>
    /\ pushes = <<>>
    /\ pull_i = 0
    /\ push_i = 0
    /\ role \in RoleInputs
    /\ listing_failed = FALSE
    /\ delete_failed = FALSE

\* delete_integrations.py:106-118: the current user is looked up; a failed
\* lookup raises SystemExit, a denied role exits
CheckCurrentUser ==
    /\ pc = "start"
    /\ \E code \in ListCodes :
          IF raise_for_status(code)
          THEN Exit(1, "user_lookup_failed")
          ELSE IF role_compared(role) \in DENIED_ROLES
          THEN Exit(1, "denied")
          ELSE /\ pc' = "authorized"
               /\ UNCHANGED <<exit_status, exit_reason>>
    /\ UNCHANGED <<force, deletes>>
    /\ UNCHANGED project_vars
    /\ UNCHANGED integration_vars
    /\ UNCHANGED extra_vars

\* delete_integrations.py:120-156: the integrations are listed (a failed
\* listing raises SystemExit), then the two early exits
ListIntegrations ==
    /\ pc = "authorized"
    /\ \E code \in ListCodes :
          IF raise_for_status(code)
          THEN Exit(1, "http_error") /\ UNCHANGED integrations
          ELSE /\ \E n \in 0..NumIntegrations : integrations' = [k \in 1..n |-> k]
               /\ IF Len(integrations') = 0 THEN Exit(1, "no_integrations")
                  ELSE IF dry_run_exits(dry_run) THEN Exit(1, "dry_run")
                  ELSE /\ pc' = "loop"
                       /\ UNCHANGED <<exit_status, exit_reason>>
    /\ UNCHANGED <<force, deletes, dry_run, idx, pulls, pushes, pull_i, push_i>>
    /\ UNCHANGED integration_flags
    /\ UNCHANGED project_vars
    /\ UNCHANGED extra_vars

\* delete_integrations.py:158-178: the next integration is taken, its pulls
\* and pushes are listed, then the force gate
ProcessIntegration ==
    /\ pc = "loop"
    /\ idx < Len(integrations)
    /\ idx' = idx + 1
    /\ \E pulls_answer \in ListAnswers, pushes_answer \in ListAnswers,
          stored_pulls \in StoredPulls, stored_pushes \in StoredPushes :
          LET pl == listing_results(pulls_answer, stored_pulls)
              ps == listing_results(pushes_answer, stored_pushes)
          IN  /\ listing_failed' =
                    (\/ raise_for_status(pulls_answer.code)
                     \/ (~listing_crashes(pulls_answer) /\ raise_for_status(pushes_answer.code)))
              /\ IF listing_crashes(pulls_answer)
                 THEN /\ pc' = "crashed"
                      /\ exit_status' = 1
                      /\ exit_reason' = "JSONDecodeError"
                      /\ UNCHANGED <<pulls, pushes>>
                 ELSE IF listing_crashes(pushes_answer)
                 THEN /\ pc' = "crashed"
                      /\ exit_status' = 1
                      /\ exit_reason' = "JSONDecodeError"
                      /\ pulls' = pl
                      /\ UNCHANGED pushes
                 ELSE /\ pulls' = pl
                      /\ pushes' = ps
                      /\ IF gate_refuses(force, pl, ps)
                         THEN Exit(1, "blocked")
                         ELSE /\ pc' = "cascade"
                              /\ UNCHANGED <<exit_status, exit_reason>>
    /\ pull_i' = 0
    /\ push_i' = 0
    /\ deletes' = <<>>
    /\ UNCHANGED <<force, dry_run, integrations, role, delete_failed>>
    /\ UNCHANGED project_vars
    /\ UNCHANGED extra_vars

\* delete_integrations.py:180-182 and 71-80, one iteration
DeleteIntegrationPull ==
    /\ pc = "cascade"
    /\ pull_i < Len(pulls)
    /\ LET name == pulls[pull_i + 1] IN
       IF is_protected(name)
       THEN /\ pull_i' = pull_i + 1
            /\ UNCHANGED <<deletes, pc, exit_status, exit_reason, delete_failed>>
       ELSE \E code \in DeleteCodes :
               /\ deletes' = Append(deletes,
                      DeleteEntry("pull", integrations[idx], pull_i + 1, name, code))
               /\ delete_failed' = (delete_failed \/ raise_for_status(code))
               /\ IF sub_delete_aborts(code)
                  THEN Exit(1, "http_error") /\ UNCHANGED pull_i
                  ELSE /\ pull_i' = pull_i + 1
                       /\ UNCHANGED <<pc, exit_status, exit_reason>>
    /\ UNCHANGED <<force, dry_run, integrations, idx, pulls, pushes, push_i, role, listing_failed>>
    /\ UNCHANGED project_vars
    /\ UNCHANGED extra_vars

\* delete_integrations.py:183-185 and 83-90, one iteration
DeleteIntegrationPush ==
    /\ pc = "cascade"
    /\ pull_i = Len(pulls)
    /\ push_i < Len(pushes)
    /\ \E code \in DeleteCodes :
          /\ deletes' = Append(deletes,
                 DeleteEntry("push", integrations[idx], push_i + 1, pushes[push_i + 1], code))
          /\ delete_failed' = (delete_failed \/ raise_for_status(code))
          /\ IF sub_delete_aborts(code)
             THEN Exit(1, "http_error") /\ UNCHANGED push_i
             ELSE /\ push_i' = push_i + 1
                  /\ UNCHANGED <<pc, exit_status, exit_reason>>
    /\ UNCHANGED <<force, dry_run, integrations, idx, pulls, pushes, pull_i, role, listing_failed>>
    /\ UNCHANGED project_vars
    /\ UNCHANGED extra_vars

\* delete_integrations.py:187-192
DeleteIntegration ==
    /\ pc = "cascade"
    /\ pull_i = Len(pulls)
    /\ push_i = Len(pushes)
    /\ \E code \in DeleteCodes :
          /\ deletes' = Append(deletes,
                 DeleteEntry("integration", integrations[idx], 0, "", code))
          /\ delete_failed' = (delete_failed \/ raise_for_status(code))
          /\ IF integration_delete_aborts(code)
             THEN Exit(1, "integration_delete_failed")
             ELSE /\ pc' = "loop"
                  /\ UNCHANGED <<exit_status, exit_reason>>
    /\ UNCHANGED <<force, dry_run, integrations, idx, pulls, pushes, pull_i, push_i, role, listing_failed>>
    /\ UNCHANGED project_vars
    /\ UNCHANGED extra_vars

\* the loop of line 158 is over, main returns
IntegrationsDone ==
    /\ pc = "loop"
    /\ idx = Len(integrations)
    /\ pc' = "done"
    /\ exit_status' = 0
    /\ UNCHANGED <<force, exit_reason, deletes>>
    /\ UNCHANGED project_vars
    /\ UNCHANGED integration_vars
    /\ UNCHANGED extra_vars

NextIntegration ==
    \/ CheckCurrentUser
    \/ ListIntegrations
    \/ ProcessIntegration
    \/ DeleteIntegrationPull
    \/ DeleteIntegrationPush
    \/ DeleteIntegration
    \/ IntegrationsDone

SpecIntegration == InitIntegration /\ [][NextIntegration]_vars

\* ------------------------------- ct_org_repro_init: --projects --delete
\* ct_org_repro_init.py:16
EXIT_ERR == 1

\* a name that no project of the service has
UnknownName == NumProjects + 1

\* --project-root-name: not given (NoProject), the name of a project, or unknown
RootNameInputs == {NoProject, UnknownName} \cup Projects

\* helpers.get_object_by_name on the listing of all projects; None is NoProject
get_object_by_name(name) == IF name \in Projects THEN name ELSE NoProject

\* helpers.get_all_top_level_projects on a listing
get_all_top_level_projects(all_projects) ==
    SelectSeq(all_projects, LAMBDA project : ~project_has_parent(project))

\* the force argument of the calls of ct_org_repro_init.py:192 and 203:
\* none is passed, the parameter takes its default
force_argument(cli_force) == FALSE

InitCli ==
    /\ pc = "main"
    /\ force = FALSE
    /\ exit_status = -1
    /\ exit_reason = ""
    /\ deletes = <<>>
    /\ depends_on \in Forests
    /\ dependents \in DependentsUpTo(depends_on, NumProjects)
    /\ parameters \in ParameterCounts
    /\ root = NoProject
    /\ project_and_dependents = <<>>
    /\ done_count = 0
    /\ IdleIntegration
    /\ args \in [force : BOOLEAN, project_root_name : RootNameInputs, levels : {0}, project_count : {0}]
    /\ top_level_projects = <<>>
    /\ top_i = 0
    /\ IdleCreate
    /\ IdleWalk
    /\ IdleTemplate

\* ct_org_repro_init.py:276-282 and 197-204: the project is looked up by name
\* in the listing (through make_request), then delete_project is called
DeleteSingleProject ==
    /\ pc = "main"
    /\ args.project_root_name # NoProject
    /\ \E code \in ListCodes :
          IF make_request(code) = "exit"
          THEN Exit(0, "http_error") /\ UNCHANGED <<root, force>>
          ELSE LET project == get_object_by_name(args.project_root_name) IN
               IF project = NoProject
               THEN Exit(EXIT_ERR, "not_found") /\ UNCHANGED <<root, force>>
               ELSE /\ root' = project
                    /\ force' = force_argument(args.force)
                    /\ pc' = "start"
                    /\ UNCHANGED <<exit_status, exit_reason>>
    /\ UNCHANGED <<deletes, depends_on, dependents, parameters, project_and_dependents, done_count>>
    /\ UNCHANGED integration_vars
    /\ UNCHANGED extra_vars

\* ct_org_repro_init.py:283-287, 185-192 and helpers.py:144-152: the top-level
\* projects are taken from the listing, in its order, and delete_project is
\* called on the first
DeleteAllProjects ==
    /\ pc = "main"
    /\ args.project_root_name = NoProject
    /\ \E code \in ListCodes :
          IF make_request(code) = "exit"
          THEN Exit(0, "http_error") /\ UNCHANGED <<root, force, top_level_projects, top_i>>
          ELSE \E all_projects \in Perms(Projects) :
               LET found == get_all_top_level_projects(all_projects) IN
               /\ top_level_projects' = found
               /\ IF Len(found) = 0
                  THEN /\ pc' = "done"
                       /\ exit_status' = 0
                       /\ UNCHANGED <<exit_reason, root, force, top_i>>
                  ELSE /\ root' = found[1]
                       /\ top_i' = 1
                       /\ force' = force_argument(args.force)
                       /\ pc' = "start"
                       /\ UNCHANGED <<exit_status, exit_reason>>
    /\ UNCHANGED <<deletes, depends_on, dependents, parameters, project_and_dependents, done_count>>
    /\ UNCHANGED integration_vars
    /\ UNCHANGED <<args, create_vars, walk_vars, template_vars>>

\* delete_project returns: the loop of ct_org_repro_init.py:191 calls it on the
\* next top-level project, or main ends
CliProjectReturn ==
    /\ pc = "deleting"
    /\ done_count = Len(deletion_order)
    /\ IF top_i < Len(top_level_projects)
       THEN /\ top_i' = top_i + 1
            /\ root' = top_level_projects[top_i + 1]
            /\ force' = force_argument(args.force)
            /\ project_and_dependents' = <<>>
            /\ done_count' = 0
            /\ deletes' = <<>>
            /\ pc' = "start"
            /\ UNCHANGED <<exit_status, exit_reason>>
       ELSE /\ pc' = "done"
            /\ exit_status' = 0
            /\ UNCHANGED <<exit_reason, top_i, root, force, project_and_dependents, done_count, deletes>>
    /\ UNCHANGED <<depends_on, dependents, parameters>>
    /\ UNCHANGED integration_vars
    /\ UNCHANGED <<args, top_level_projects, create_vars, walk_vars, template_vars>>

NextCli ==
    \/ DeleteSingleProject
    \/ DeleteAllProjects
    \/ GetProjectTree
    \/ DeleteProjectObject
    \/ CliProjectReturn

SpecCli == InitCli /\ [][NextCli]_vars

\* ------------------------------------------- the walk, one call at a time
\* helpers.py:123-142 on any pointer graph: the walk follows the dependents
\* urls the service answers with and never looks at depends_on, so the graph
\* is whatever the service stores, a cycle included. Each call in progress is
\* a frame of the stack. The walk holds no depth counter and no visited set:
\* what ends a recursion that does not end by itself is the interpreter's
\* recursion limit (MaxWalkDepth, scaled down), RecursionError, which nothing
\* catches (status 1).
PointerLists ==
    {s \in BoundedSeq(Projects, MaxPointers) :
        \A a, b \in 1..Len(s) : a # b => s[a] # s[b]}

PointerGraphs == [Projects -> PointerLists]

Frame(project, k) == [project |-> project, k |-> k]

InitWalk ==
    /\ pc = "start"
    /\ force = FALSE
    /\ exit_status = -1
    /\ exit_reason = ""
    /\ deletes = <<>>
    /\ depends_on = <<>>
    /\ dependents \in PointerGraphs
    /\ parameters = <<>>
    /\ root = 1
    /\ project_and_dependents = <<>>
    /\ done_count = 0
    /\ IdleIntegration
    /\ IdleCli
    /\ IdleCreate
    /\ stack = <<>>
    /\ IdleTemplate

\* helpers.py:126-129: the first call puts the parent in the list
WalkStart ==
    /\ pc = "start"
    /\ project_and_dependents' = <<root>>
    /\ stack' = <<Frame(root, 0)>>
    /\ pc' = "walking"
    /\ UNCHANGED <<force, exit_status, exit_reason, deletes>>
    /\ UNCHANGED <<depends_on, dependents, parameters, root, done_count>>
    /\ UNCHANGED <<integration_vars, cli_vars, create_vars, template_vars>>

\* helpers.py:132-140: one iteration of the for loop of the innermost call
WalkChild ==
    /\ pc = "walking"
    /\ Len(stack) > 0
    /\ LET top == stack[Len(stack)]
           child_project_urls == dependents[top.project]
       IN /\ top.k < Len(child_project_urls)
          /\ LET child_project == child_project_urls[top.k + 1]
                 advanced == [stack EXCEPT ![Len(stack)] = Frame(top.project, top.k + 1)]
             IN \E code \in ListCodes :
                   IF make_request(code) = "exit"
                   THEN /\ Exit(0, "http_error")
                        /\ UNCHANGED <<project_and_dependents, stack>>
                   ELSE /\ project_and_dependents' = Append(project_and_dependents, child_project)
                        /\ IF project_has_dependents(child_project)
                           THEN IF Len(stack) >= MaxWalkDepth
                                THEN /\ pc' = "crashed"
                                     /\ exit_status' = 1
                                     /\ exit_reason' = "RecursionError"
                                     /\ UNCHANGED stack
                                ELSE /\ stack' = Append(advanced, Frame(child_project, 0))
                                     /\ UNCHANGED <<pc, exit_status, exit_reason>>
                           ELSE /\ stack' = advanced
                                /\ UNCHANGED <<pc, exit_status, exit_reason>>
    /\ UNCHANGED <<force, deletes>>
    /\ UNCHANGED <<depends_on, dependents, parameters, root, done_count>>
    /\ UNCHANGED <<integration_vars, cli_vars, create_vars, template_vars>>

\* helpers.py:142: the innermost call has gone through its children and returns
WalkReturn ==
    /\ pc = "walking"
    /\ Len(stack) > 0
    /\ LET top == stack[Len(stack)]
       IN top.k = Len(dependents[top.project])
    /\ stack' = SubSeq(stack, 1, Len(stack) - 1)
    /\ pc' = IF Len(stack) = 1 THEN "walked" ELSE "walking"
    /\ UNCHANGED <<force, exit_status, exit_reason, deletes>>
    /\ UNCHANGED project_vars
    /\ UNCHANGED <<integration_vars, cli_vars, create_vars, template_vars>>

NextWalk ==
    \/ WalkStart
    \/ WalkChild
    \/ WalkReturn

SpecWalk == InitWalk /\ [][NextWalk]_vars

\* --------------------------------------- ct_org_repro_init.main, creation
\* ct_org_repro_init.py:139-160: create_projects looks the parent up by name
\* when one is given (one GET) and sends count POSTs, all through
\* make_request
create_projects_requests(count, named) == count + (IF named THEN 1 ELSE 0)

InitCreate ==
    /\ pc = "main"
    /\ force = FALSE
    /\ exit_status = -1
    /\ exit_reason = ""
    /\ deletes = <<>>
    /\ IdleProject
    /\ IdleIntegration
    /\ args \in [force : {FALSE}, project_root_name : {NoProject},
                 levels : 0..MaxLevels, project_count : 0..MaxProjectCount]
    /\ top_level_projects = <<>>
    /\ top_i = 0
    /\ IdleCreate
    /\ IdleWalk
    /\ IdleTemplate

\* ct_org_repro_init.py:266-267: the first call, then the test of args.levels
CreateRootProjects ==
    /\ pc = "main"
    /\ \/ /\ create_projects_requests(args.project_count, args.project_root_name # NoProject) > 0
          /\ Exit(0, "http_error")
       \/ /\ IF args.levels # 0
             THEN pc' = "listing" /\ UNCHANGED exit_status
             ELSE pc' = "done" /\ exit_status' = 0
          /\ UNCHANGED exit_reason
    /\ UNCHANGED <<force, deletes>>
    /\ UNCHANGED <<project_vars, integration_vars, cli_vars, create_vars, walk_vars, template_vars>>

\* ct_org_repro_init.py:268-269: the projects are listed once, before the loop;
\* the listing holds the projects just created and those the organisation had
ListProjects ==
    /\ pc = "listing"
    /\ \E code \in ListCodes :
          IF make_request(code) = "exit"
          THEN /\ Exit(0, "http_error")
               /\ UNCHANGED <<level_projects, level_i>>
          ELSE \E existing \in 0..MaxExisting :
                  /\ level_projects' = existing + args.project_count
                  /\ level_i' = 0
                  /\ pc' = "while"
                  /\ UNCHANGED <<exit_status, exit_reason>>
    /\ UNCHANGED <<force, deletes, for_pos, rounds, created>>
    /\ UNCHANGED <<project_vars, integration_vars, cli_vars, walk_vars, template_vars>>

\* ct_org_repro_init.py:270: the test of the while loop
WhileLevels ==
    /\ pc = "while"
    /\ IF level_i < args.levels
       THEN /\ pc' = "for"
            /\ for_pos' = 0
            /\ UNCHANGED exit_status
       ELSE /\ pc' = "done"
            /\ exit_status' = 0
            /\ UNCHANGED for_pos
    /\ UNCHANGED <<force, exit_reason, deletes, level_projects, level_i, rounds, created>>
    /\ UNCHANGED <<project_vars, integration_vars, cli_vars, walk_vars, template_vars>>

\* ct_org_repro_init.py:271-273: one iteration of the for loop, which counts i
\* up without looking at args.levels
ForProject ==
    /\ pc = "for"
    /\ for_pos < level_projects
    /\ \/ /\ create_projects_requests(args.project_count, TRUE) > 0
          /\ Exit(0, "http_error")
          /\ UNCHANGED <<level_i, for_pos, created>>
       \/ /\ created' = created + 1
          /\ level_i' = level_i + 1
          /\ for_pos' = for_pos + 1
          /\ UNCHANGED <<pc, exit_status, exit_reason>>
    /\ UNCHANGED <<force, deletes, level_projects, rounds>>
    /\ UNCHANGED <<project_vars, integration_vars, cli_vars, walk_vars, template_vars>>

\* ct_org_repro_init.py:271: the for loop is through the listing, a pass of the
\* while loop is complete (with an empty listing the passes never stop: they
\* are counted up to MaxLevels + 1 only)
ForDone ==
    /\ pc = "for"
    /\ for_pos = level_projects
    /\ rounds <= MaxLevels
    /\ rounds' = rounds + 1
    /\ pc' = "while"
    /\ UNCHANGED <<force, exit_status, exit_reason, deletes, level_projects, level_i, for_pos, created>>
    /\ UNCHANGED <<project_vars, integration_vars, cli_vars, walk_vars, template_vars>>

NextCreate ==
    \/ CreateRootProjects
    \/ ListProjects
    \/ WhileLevels
    \/ ForProject
    \/ ForDone

SpecCreate == InitCreate /\ [][NextCreate]_vars

\* ------------------------------------ test_trailing_slash_updates.main
\* Every request of the script goes through base.api_request, which sends it
\* and returns the response; sent is the log of the requests.
Request(method, slash, code) == [method |-> method, slash |-> slash, code |-> code]

CreateCodes == {201, 500}
UpdateCodes == {200, 404}

\* test_trailing_slash_updates.py:92-102: the four calls of test_update
UpdateMethods == <<"PATCH", "PATCH", "PUT", "PUT">>
UpdateSlash == <<FALSE, TRUE, FALSE, TRUE>>

\* base.py:82, test_trailing_slash_updates.py:58
is_success(code) == 200 <= code /\ code < 300

InitTemplate ==
    /\ pc = "main"
    /\ force = FALSE
    /\ exit_status = -1
    /\ exit_reason = ""
    /\ deletes = <<>>
    /\ IdleProject
    /\ dry_run \in BOOLEAN
    /\ integrations = <<>>
    /\ idx = 0
    /\ pulls = <<>>
    /\ pushes = <<>>
    /\ pull_i = 0
    /\ push_i = 0
    /\ role = ""
    /\ listing_failed = FALSE
    /\ delete_failed = FALSE
    /\ IdleCli
    /\ IdleCreate
    /\ IdleWalk
    /\ template_exists \in BOOLEAN
    /\ sent = <<>>
    /\ update_i = 0

\* base.py:96-102 through get_id_by_name (55-64): the listing of the projects;
\* a status other than 200, or no project of that name, ends the run
EnsureProjectExists ==
    /\ pc = "main"
    /\ \E code \in ListCodes, found \in BOOLEAN :
          /\ sent' = Append(sent, Request("GET", TRUE, code))
          /\ IF code # 200
             THEN Exit(1, "fetch_failed")
             ELSE IF ~found
                  THEN Exit(1, "project_not_found")
                  ELSE pc' = "project" /\ UNCHANGED <<exit_status, exit_reason>>
    /\ UNCHANGED <<force, deletes, template_exists, update_i>>
    /\ UNCHANGED <<project_vars, integration_vars, cli_vars, create_vars, walk_vars>>

\* base.py:75-94: the template is looked up and, when the project does not
\* hold it, created by a POST; ensure_template_exists is not given dry_run
EnsureTemplateExists ==
    /\ pc = "project"
    /\ \E code \in ListCodes :
          LET looked == Append(sent, Request("GET", TRUE, code)) IN
          IF code # 200
          THEN /\ sent' = looked
               /\ Exit(1, "fetch_failed")
               /\ UNCHANGED template_exists
          ELSE IF template_exists
               THEN /\ sent' = looked
                    /\ pc' = "updates"
                    /\ UNCHANGED <<exit_status, exit_reason, template_exists>>
               ELSE \E created_code \in CreateCodes :
                       LET posted == Append(looked, Request("POST", TRUE, created_code)) IN
                       IF ~is_success(created_code)
                       THEN /\ sent' = posted
                            /\ Exit(1, "create_failed")
                            /\ UNCHANGED template_exists
                       ELSE \E again \in ListCodes :
                               /\ sent' = Append(posted, Request("GET", TRUE, again))
                               /\ template_exists' = TRUE
                               /\ IF again # 200
                                  THEN Exit(1, "fetch_failed")
                                  ELSE pc' = "updates" /\ UNCHANGED <<exit_status, exit_reason>>
    /\ UNCHANGED <<force, deletes, update_i>>
    /\ UNCHANGED <<project_vars, integration_vars, cli_vars, create_vars, walk_vars>>

\* test_trailing_slash_updates.py:37-71: the body is read, then, unless
\* dry_run, the update is sent and the body read again
test_update ==
    /\ pc = "updates"
    /\ update_i < Len(UpdateMethods)
    /\ LET method == UpdateMethods[update_i + 1]
           slash == UpdateSlash[update_i + 1]
       IN \E before \in ListCodes :
             LET read == Append(sent, Request("GET", slash, before)) IN
             IF dry_run
             THEN sent' = read
             ELSE \E status \in UpdateCodes, after \in ListCodes :
                     sent' = read \o <<Request(method, slash, status), Request("GET", slash, after)>>
    /\ update_i' = update_i + 1
    /\ UNCHANGED <<force, pc, exit_status, exit_reason, deletes, template_exists>>
    /\ UNCHANGED <<project_vars, integration_vars, cli_vars, create_vars, walk_vars>>

\* test_trailing_slash_updates.py:104: main returns
TemplateDone ==
    /\ pc = "updates"
    /\ update_i = Len(UpdateMethods)
    /\ pc' = "done"
    /\ exit_status' = 0
    /\ UNCHANGED <<force, exit_reason, deletes>>
    /\ UNCHANGED <<project_vars, integration_vars, cli_vars, create_vars, walk_vars, template_vars>>

NextTemplate ==
    \/ EnsureProjectExists
    \/ EnsureTemplateExists
    \/ test_update
    \/ TemplateDone

SpecTemplate == InitTemplate /\ [][NextTemplate]_vars

\* =================================================================== claims
Succeeded(d) == ~raise_for_status(d.code)

\* a is a proper ancestor of d, by the parent pointers alone
RECURSIVE IsAncestor(_, _)
IsAncestor(a, d) ==
    /\ d # NoProject
    /\ depends_on[d] # NoProject
    /\ (depends_on[d] = a \/ IsAncestor(a, depends_on[d]))

DescendantsOf(p) == {d \in Projects : IsAncestor(p, d)}

TreeBuilt == Len(project_and_dependents) > 0

\* C1: a project's delete succeeds only after the delete of every project
\* whose depends_on points to it has succeeded (hence, by induction, after all
\* of its descendants): no project is deleted while a dependent is undeleted.
C1_DependentsDeletedFirst ==
    \A k \in 1..Len(deletes) :
        (deletes[k].kind = "project" /\ Succeeded(deletes[k])) =>
            \A c \in Projects :
                depends_on[c] = deletes[k].owner =>
                    \E j \in 1..(k - 1) :
                        /\ deletes[j].kind = "project"
                        /\ deletes[j].owner = c
                        /\ Succeeded(deletes[j])

\* a root with a child and a grandchild, the whole subtree deleted
C1_Witness ==
    /\ pc = "done"
    /\ \E c, g \in Projects : depends_on[c] = root /\ depends_on[g] = c
    /\ \E k \in 1..Len(deletes) : deletes[k].owner = root /\ Succeeded(deletes[k])

\* C2: the list built by get_project_tree_projects starts with the root, holds
\* the root and each of its descendants exactly once and nothing else, and is
\* in pre-order: the descendants of the project at position i fill the
\* positions right after i; a root without dependents gives a one-element list.
C2_PreOrderSubtree ==
    TreeBuilt =>
        LET l == project_and_dependents IN
        /\ l[1] = root
        /\ Range(l) = {root} \cup DescendantsOf(root)
        /\ Len(l) = Cardinality({root} \cup DescendantsOf(root))
        /\ \A i \in 1..Len(l) :
              LET n == Cardinality(DescendantsOf(l[i])) IN
              /\ i + n <= Len(l)
              /\ {l[j] : j \in (i + 1)..(i + n)} = DescendantsOf(l[i])
        /\ (Len(dependents[root]) = 0 => Len(l) = 1)

\* the scenario A -> [B, C], B -> [D]
C2_Witness ==
    /\ TreeBuilt
    /\ Len(project_and_dependents) = 4
    /\ Len(dependents[root]) = 2
    /\ \E b \in Range(dependents[root]) : Len(dependents[b]) = 1

\* C3: without force, no delete request is issued for a project that holds
\* parameters, and a run that meets such a project ends refused.
C3_ForceGateRefuses ==
    ~force =>
        /\ \A k \in 1..Len(deletes) :
              deletes[k].kind = "project" => parameters[deletes[k].owner] = 0
        /\ (pc = "done" => \A p \in Range(project_and_dependents) : parameters[p] = 0)

\* C8: with force, when the run has ended without a failed request, for every
\* project of the deletion order a delete was issued for each of its
\* parameters, all of them before the delete of the project.
C8_ParametersDeletedBeforeProject ==
    (force /\ TreeBuilt /\ pc \in {"done", "exited", "crashed"} /\ exit_reason # "http_error") =>
        \A p \in Range(project_and_dependents) :
            \A n \in 1..parameters[p] :
                \E j, k \in 1..Len(deletes) :
                    /\ j < k
                    /\ deletes[j].kind = "parameter"
                    /\ deletes[j].owner = p
                    /\ deletes[j].item = n
                    /\ deletes[k].kind = "project"
                    /\ deletes[k].owner = p

Attempted(p) == \E k \in 1..Len(deletes) : deletes[k].kind = "project" /\ deletes[k].owner = p

ProjectRunEnded == ~force /\ TreeBuilt /\ pc \in {"done", "exited"}

\* C9: a delete answered with an error (other than not found) does not abort
\* the cascade: when the run has ended every project of the deletion order
\* has been attempted, and the final status is failed iff some delete failed.
C9_FailureDoesNotAbort ==
    (ProjectRunEnded /\ \A k \in 1..Len(deletes) : deletes[k].code # 404) =>
        /\ \A p \in Range(project_and_dependents) : Attempted(p)
        /\ (exit_status # 0 <=> \E k \in 1..Len(deletes) : ~Succeeded(deletes[k]))

\* C10: a delete answered not found counts as a deletion: when the only
\* non-2xx answers of a run were not found, the cascade has gone on to every
\* project of the deletion order and the run ends with status success.
C10_NotFoundIsSuccess ==
    (ProjectRunEnded /\ \A k \in 1..Len(deletes) : deletes[k].code \in {204, 404}) =>
        /\ \A p \in Range(project_and_dependents) : Attempted(p)
        /\ exit_status = 0

\* ---- integrations
\* the listings of the integration being processed have both been read
Listed == idx >= 1 /\ pc # "crashed"

\* the dependents the two listings returned, the protected pull left out
HasDependents(pl, ps) ==
    \/ Len(ps) > 0
    \/ \E k \in 1..Len(pl) : pl[k] # "ExternalValues"

OwnedBy(i) == SelectSeq(deletes, LAMBDA d : d.owner = i)

\* C4: no delete request is ever issued for a pull named "ExternalValues".
C4_ExternalValuesNeverDeleted ==
    \A k \in 1..Len(deletes) :
        ~(deletes[k].kind = "pull" /\ deletes[k].name = "ExternalValues")

\* the cascade of an integration that has an "ExternalValues" pull went through
C4_Witness ==
    /\ Listed
    /\ \E k \in 1..Len(pulls) : pulls[k] = "ExternalValues"
    /\ pull_i = Len(pulls)
    /\ \E k \in 1..Len(deletes) :
          deletes[k].kind = "integration" /\ deletes[k].owner = integrations[idx]

\* C5: without force, an integration for which the listings returned a push or
\* a pull other than "ExternalValues" is refused and no delete request is
\* issued for its pulls, its pushes or itself.
C5_RefusedBeforeAnyDelete ==
    (~force /\ Listed /\ HasDependents(pulls, pushes)) =>
        /\ exit_reason = "blocked"
        /\ Len(OwnedBy(integrations[idx])) = 0

\* the second integration of the batch, refused on its pushes alone
C5_Witness ==
    /\ ~force
    /\ idx = 2
    /\ exit_reason = "blocked"
    /\ Len(pulls) = 0
    /\ Len(pushes) > 0

\* C6: without force, an integration whose listings returned nothing but
\* "ExternalValues" pulls is not refused.
C6_ProtectedPullDoesNotBlock ==
    (~force /\ Listed /\ ~HasDependents(pulls, pushes)) => exit_reason # "blocked"

ExpectedTargets(pl, ps) ==
    SelectSeq([k \in 1..Len(pl) |-> <<"pull", k, pl[k]>>],
              LAMBDA t : t[3] # "ExternalValues")
    \o [k \in 1..Len(ps) |-> <<"push", k, ps[k]>>]
    \o << <<"integration", 0, "">> >>

IssuedTargets(i) ==
    LET own == OwnedBy(i) IN [k \in 1..Len(own) |-> <<own[k].kind, own[k].item, own[k].name>>]

\* C7: with force, the delete requests issued for an integration are, in
\* order, its pulls other than "ExternalValues", its pushes, then itself,
\* whatever the answers: the cascade in progress has issued a prefix of that
\* sequence as long as its loops have advanced, and it is left only once the
\* whole sequence has been issued.
C7_CascadeOrderBestEffort ==
    (force /\ Listed) =>
        LET exp == ExpectedTargets(pulls, pushes)
            got == IssuedTargets(integrations[idx])
            skipped == Cardinality({k \in 1..pull_i : pulls[k] = "ExternalValues"})
        IN  /\ Len(got) <= Len(exp)
            /\ got = SubSeq(exp, 1, Len(got))
            /\ (pc = "cascade" => Len(got) = pull_i - skipped + push_i)
            /\ (pc # "cascade" => got = exp)

\* a failed pull delete, then a push and the integration deleted all the same
C7_Witness ==
    /\ force
    /\ pc = "loop"
    /\ \E j, m, k \in 1..Len(deletes) :
          /\ j < m /\ m < k
          /\ deletes[j].kind = "pull" /\ ~Succeeded(deletes[j])
          /\ deletes[m].kind = "push" /\ ~Succeeded(deletes[m])
          /\ deletes[k].kind = "integration"
          /\ deletes[j].owner = deletes[k].owner
          /\ deletes[m].owner = deletes[k].owner

\* C11: when a listing of the pulls or pushes of an integration is answered
\* with an error, no delete request is issued for that integration and the
\* run goes on (it does not stop on that integration).
C11_ListingFailureSkipsIntegration ==
    listing_failed => (Len(deletes) = 0 /\ pc # "crashed")

\* C14: in a dry run no delete of a pull, a push or an integration is issued,
\* whatever was found and whatever force is: the run never enters the loop
\* over the integrations.
C14_DryRunIssuesNoDelete ==
    dry_run =>
        /\ Len(deletes) = 0
        /\ ~delete_failed
        /\ pc \notin {"loop", "cascade", "done"}

\* a forced dry run that found several integrations
C14_Witness ==
    /\ dry_run
    /\ force
    /\ exit_reason = "dry_run"
    /\ Len(integrations) >= 2

\* C15: what a real run deletes is what the dry run on the same listing
\* reports: every target of a delete request of the real run is a row of the
\* dry run's report.
C15_DryRunReportMatchesRealRun ==
    ~dry_run =>
        \A k \in 1..Len(deletes) :
            <<deletes[k].kind, deletes[k].owner, deletes[k].item>>
                \in Range(dry_run_report(integrations))

\* C16: a run in which a delete failed or an integration was blocked ends
\* with a non-zero exit status, and a run that completed without either ends
\* with status zero.
C16_ExitStatusReflectsOutcome ==
    pc \in {"done", "exited", "crashed"} =>
        /\ (delete_failed \/ exit_reason = "blocked") => exit_status # 0
        /\ (pc = "done" /\ ~delete_failed) => exit_status = 0

\* C20: when the role is VIEWER or CONTRIB in any spelling of the case, or
\* the lookup of the current user failed, the run ends before the
\* integrations are listed and before any delete request.
C20_DeniedRoleEndsBeforeListing ==
    (role \in {"VIEWER", "viewer", "CONTRIB", "Contrib"} \/ exit_reason = "user_lookup_failed") =>
        /\ pc \in {"start", "exited"}
        /\ exit_reason \in {"", "denied", "user_lookup_failed"}
        /\ Len(integrations) = 0
        /\ idx = 0
        /\ Len(deletes) = 0

\* a role answered in lower case, denied
C20_Witness ==
    /\ role = "viewer"
    /\ pc = "exited"
    /\ exit_reason = "denied"

\* ---- ct_org_repro_init --projects --delete
\* C12: in a batch over the top-level projects, a failure while one of them
\* is deleted does not keep the later ones from being attempted: when the run
\* has ended, delete_project has been called on every top-level project.
C12_BatchContinuesPastFailure ==
    (pc \in {"done", "exited"} /\ Len(top_level_projects) > 0) =>
        top_i = Len(top_level_projects)

\* C17: delete_project is invoked with the force of the command line: true
\* with --force, false without.
C17_ForceReachesCascade ==
    pc \in {"start", "deleting"} => force = args.force

\* C13: the subtree walk ends on every pointer graph, a cyclic one included,
\* by itself: when the graph makes it recurse too deep it stops with
\* MalformedTree, and never by an error of the interpreter
C13_WalkSignalsMalformedTree ==
    pc = "crashed" => exit_reason = "MalformedTree"

\* C18: with --levels N, N >= 1, the creation loop performs N rounds of
\* nesting, whatever the number of projects the listing returns
C18_RoundsEqualLevels ==
    (pc = "done" /\ args.levels >= 1) => rounds = args.levels

\* C19: a run of the trailing-slash update test with --dry-run sends GET
\* requests only, whether or not the template exists: no POST, PATCH or PUT
C19_DryRunSendsOnlyGet ==
    dry_run => \A k \in 1..Len(sent) : sent[k].method = "GET"

====
